---- MODULE Spec2Model ----
(***************************************************************************)
(* Trivia backend (backend/flaskr/__init__.py): the Flask application       *)
(* built by create_app, its route table, its five handlers and its six     *)
(* error handlers, over a store of categories and questions.                *)
(*                                                                         *)
(* Spec     : one request at a time, each action a whole handler.           *)
(* ConcSpec : several clients whose handlers interleave at the granularity  *)
(*            of single store statements.                                   *)
(*                                                                         *)
(* Text is a sequence of one-character strings, so that ILIKE patterns and  *)
(* case folding are computed, not assumed.                                  *)
(***************************************************************************)
EXTENDS Integers, Sequences, FiniteSets, TLC

VARIABLES
    categories,   \* the categories table: rows [id, type]
    questions,    \* the questions table, in listing order
    nextId,       \* the next auto-assigned question id
    req,          \* the request handled last (Spec)
    resp,         \* the response to it (Spec)
    session,      \* the database session's events during that request (Spec)
    deleted,      \* history: ids of the questions deleted so far
    nOps,         \* number of requests that changed the store
    pc,           \* ConcSpec: each client's position in its handler
    loc           \* ConcSpec: each client's request, locals and response

vars == <<categories, questions, nextId, req, resp, session, deleted, nOps, pc, loc>>

------------------------------------------------------------------------------
(* Bounds of the model *)

MaxInit == 11      \* the largest initial store holds MaxInit questions
MaxOps == 2        \* at most this many store-changing requests
MaxPage == 3       \* page numbers 1..MaxPage are requested
MaxCatArg == 3     \* category arguments 0..MaxCatArg are requested
NClients == 2      \* ConcSpec: number of interleaving clients
MaxConcOps == 2    \* ConcSpec: at most this many store-changing commits

(* Program constants *)

QUESTIONS_PER_PAGE == 10

\* Python's None where an integer is expected (a missing argument or field)
None == -1

------------------------------------------------------------------------------
(* Text *)

Lower(c) == IF c = "A" THEN "a" ELSE IF c = "B" THEN "b" ELSE c

LowerText(t) == [i \in 1..Len(t) |-> Lower(t[i])]

\* SQL LIKE on folded text: % matches any run of characters, _ any one character
RECURSIVE LikeMatch(_, _)
LikeMatch(t, p) ==
    IF p = <<>> THEN t = <<>>
    ELSE IF Head(p) = "%"
         THEN LikeMatch(t, Tail(p)) \/ (t # <<>> /\ LikeMatch(Tail(t), p))
    ELSE IF t = <<>> THEN FALSE
    ELSE /\ (Head(p) = "_" \/ Head(p) = Head(t))
         /\ LikeMatch(Tail(t), Tail(p))

\* Question.question.ilike(f'%{search}%')
ILike(text, search) ==
    LikeMatch(LowerText(text), <<"%">> \o LowerText(search) \o <<"%">>)

QuestionTexts == << <<"a", "b">>, <<"A">>, <<"b", "_">> >>

SearchTerms == { <<>>, <<"a">>, <<"B">>, <<"_">>, <<"%">>, <<"a", "_">>, <<"b", "a">> }

------------------------------------------------------------------------------
(* The store *)

CategoryRows == {[id |-> 1, type |-> "Science"], [id |-> 2, type |-> "Art"]}

CategoryIds(cats) == {c.id : c \in cats}

\* {category.id: category.type for category in Category.query.all()}
CategoryDict(cats) == {<<c.id, c.type>> : c \in cats}

\* the i-th row of the seeded questions table
SeedQuestion(i) ==
    [id |-> i,
     question |-> QuestionTexts[(i % Len(QuestionTexts)) + 1],
     answer |-> <<"x">>,
     difficulty |-> 1 + (i % 2),
     category |-> 1 + (i % 2)]

SeedStore(n) == [i \in 1..n |-> SeedQuestion(i)]

RECURSIVE SelectSeq2(_, _)
\* the rows of qs satisfying keep, in order (keep is a set of row indexes)
SelectSeq2(qs, keep) ==
    IF qs = <<>> THEN <<>>
    ELSE LET n == Len(qs)
             front == SelectSeq2(SubSeq(qs, 1, n - 1), keep)
         IN IF n \in keep THEN Append(front, qs[n]) ELSE front

FilterRows(qs, keep) == SelectSeq2(qs, keep)

Ids(qs) == {qs[i].id : i \in 1..Len(qs)}

\* Category.query.get(id)
CategoryGet(cats, id) == \E c \in cats : c.id = id

\* Question.query.get(id)
QuestionGet(qs, id) == id \in Ids(qs)

\* Question.delete(): deletes the row and commits
QuestionDelete(qs, id) == FilterRows(qs, {i \in 1..Len(qs) : qs[i].id # id})

\* db.session.add(Question(...)); db.session.commit()
QuestionInsert(qs, id, q, a, d, c) ==
    Append(qs, [id |-> id, question |-> q, answer |-> a, difficulty |-> d, category |-> c])

\* Python's None where a string is expected: no text holds this element
NoneStr == <<"None">>

\* Python truthiness of an int-or-None and of a str-or-None
TruthyInt(x) == x # None /\ x # 0

TruthyStr(s) == s # NoneStr /\ s # <<>>

------------------------------------------------------------------------------
(* Responses and the error handlers *)

Jsonify(body, status) == [status |-> status, json |-> TRUE, body |-> body]

ErrorBody(code, message) == [success |-> FALSE, error |-> code, message |-> message]

invalid_request == Jsonify(ErrorBody(400, "invalid request"), 400)

not_found == Jsonify(ErrorBody(404, "not found"), 404)

method_not_allowed == Jsonify(ErrorBody(405, "method not allowed"), 405)

request_timeout == Jsonify(ErrorBody(408, "request timed out"), 408)

unprocessable_entity == Jsonify(ErrorBody(422, "could not process the request"), 422)

\* returns the body alone: the framework sends it with its default status, 200
internal_server_error == Jsonify(ErrorBody(500, "internal server error"), 200)

ErrorCodes == {400, 404, 405, 408, 422, 500}

\* abort(code) leaving a handler: the error handler registered for the code answers
Abort(code) ==
    CASE code = 400 -> invalid_request
      [] code = 404 -> not_found
      [] code = 405 -> method_not_allowed
      [] code = 408 -> request_timeout
      [] code = 422 -> unprocessable_entity
      [] OTHER -> internal_server_error

\* exceptions: an HTTP exception carries a code, any other exception does not
HTTPException(code) == [hasCode |-> TRUE, code |-> code]

InternalError == [hasCode |-> FALSE, code |-> 0]

\* getattr(e, 'code', 500)
GetAttrCode(e) == IF e.hasCode THEN e.code ELSE 500

------------------------------------------------------------------------------
(* Requests and the route table *)

Methods == {"GET", "POST", "DELETE"}

Paths == {"/healthcheck", "/categories", "/questions", "/questions/<int>",
          "/questions/search", "/"}

\* the URL map: the endpoint a request is dispatched to, or the routing error
Route(method, path) ==
    CASE path = "/healthcheck" ->
            IF method = "GET" THEN "healthcheck" ELSE "405"
      [] path = "/categories" ->
            IF method = "GET" THEN "get_categories" ELSE "405"
      [] path = "/questions" ->
            IF method = "GET" THEN "get_paginated_questions"
            ELSE IF method = "POST" THEN "add_question" ELSE "405"
      [] path = "/questions/<int>" ->
            IF method = "DELETE" THEN "delete_question" ELSE "405"
      [] OTHER -> "404"

ObjectBody(q, a, d, c) ==
    [kind |-> "object", question |-> q, answer |-> a, difficulty |-> d,
     category |-> c, search |-> NoneStr]

\* a JSON body that is not an object (an array, a string, a number, null)
NonObjectBody ==
    [kind |-> "other", question |-> NoneStr, answer |-> NoneStr, difficulty |-> None,
     category |-> None, search |-> NoneStr]

SearchBody(term) ==
    [kind |-> "object", question |-> NoneStr, answer |-> NoneStr, difficulty |-> None,
     category |-> None, search |-> term]

NoBody == ObjectBody(NoneStr, NoneStr, None, None)

Req(method, path, id, page, cur, search, body, fault) ==
    [method |-> method, path |-> path, id |-> id, page |-> page,
     current_category |-> cur, search |-> search, body |-> body, fault |-> fault]

\* a request with no arguments and no body
Request(method, path) == Req(method, path, 0, 1, None, <<>>, NoBody, FALSE)

MaxId == MaxInit + MaxOps + 1

ListRequests ==
    {Req("GET", "/questions", 0, p, c, s, NoBody, FALSE) :
        p \in 1..MaxPage, c \in {None} \cup (0..MaxCatArg), s \in SearchTerms}

DeleteRequests ==
    {Req("DELETE", "/questions/<int>", i, 1, None, <<>>, NoBody, FALSE) : i \in 0..MaxId}

AddBodies ==
    {ObjectBody(q, a, d, c) :
        q \in {NoneStr, <<>>, <<"a", "b">>}, a \in {NoneStr, <<>>, <<"x">>},
        d \in {None, 0, 1}, c \in {None} \cup (0..MaxCatArg)} \cup {NonObjectBody}

AddRequests == {Req("POST", "/questions", 0, 1, None, <<>>, b, FALSE) : b \in AddBodies}

SearchRequests ==
    {Req("POST", "/questions/search", 0, 1, None, <<>>, SearchBody(s), FALSE) :
        s \in SearchTerms \ {<<>>}}

\* a store statement failing (the database is unreachable)
FaultRequests ==
    {Req(m, p, 1, 1, None, <<>>, ObjectBody(<<"a", "b">>, <<"x">>, 1, 1), TRUE) :
        m \in Methods, p \in {"/categories", "/questions", "/questions/<int>"}}

Requests ==
    {Request(m, p) : m \in Methods, p \in Paths} \cup ListRequests \cup DeleteRequests
        \cup AddRequests \cup SearchRequests \cup FaultRequests

------------------------------------------------------------------------------
(* The handlers' steps *)

Min(a, b) == IF a < b THEN a ELSE b

\* offset = (page - 1) * QUESTIONS_PER_PAGE
Offset(page) == (page - 1) * QUESTIONS_PER_PAGE

\* db.session.query(func.count(Question.id)).first()[0]
CountQuestions(qs) == Len(qs)

\* the range test off by one: a page starting right after the last question passes
OutOfRangeMut(offset, total) == offset > total

\* if offset >= questions_total_count: abort(404)
OutOfRange(offset, total) == offset >= total

\* if current_category and not Category.query.get(current_category): abort(404)
UnknownCategory(cats, cur) == TruthyInt(cur) /\ ~CategoryGet(cats, cur)

\* the existence test dropped: every id is taken to be stored
NotFoundMut(qs, id) == FALSE

\* question = Question.query.get(question_id); if not question: abort(404)
NotFound(qs, id) == ~QuestionGet(qs, id)

\* the optional filters of the page query
MatchesFilters(q, cur, search) ==
    /\ TruthyInt(cur) => q.category = cur
    /\ TruthyStr(search) => ILike(q.question, search)

\* .limit(limit).offset(offset)
LimitOffset(rows, limit, offset) ==
    SubSeq(rows, offset + 1, Min(offset + limit, Len(rows)))

format_question(q) ==
    [id |-> q.id, question |-> q.question, answer |-> q.answer,
     difficulty |-> q.difficulty, category |-> q.category]

\* questions_query ... .all(), formatted
PageQuery(qs, cur, search, offset) ==
    LET rows == FilterRows(qs, {i \in 1..Len(qs) : MatchesFilters(qs[i], cur, search)})
        page == LimitOffset(rows, QUESTIONS_PER_PAGE, offset)
    IN [i \in 1..Len(page) |-> format_question(page[i])]

ListBody(page, total, cats, cur) ==
    [success |-> TRUE, questions |-> page, total_questions |-> total,
     categories |-> CategoryDict(cats), current_category |-> cur]

\* the category lookup dropped from add_question's validation
MissingCategoryMut(cats, category) == FALSE

\* ... or not Category.query.get(category)
MissingCategory(cats, category) == ~CategoryGet(cats, category)

\* the falsy-field test of add_question
FalsyField(body) ==
    \/ ~TruthyStr(body.question)
    \/ ~TruthyStr(body.answer)
    \/ ~TruthyInt(body.difficulty)
    \/ ~TruthyInt(body.category)

\* the finally clause dropped: the session is left open
SessionCloseMut(log) == log

\* finally: db.session.close()
SessionClose(log) == Append(log, "close")

\* db.session.rollback() in delete_question's except clause
SessionRollback(log) == Append(log, "rollback")

------------------------------------------------------------------------------
(* Spec: whole handlers *)

NoRequest == Request("NONE", "/")

NoResponse == [status |-> 0, json |-> FALSE, body |-> [text |-> ""]]

Clients == 1..NClients

IdleLoc == [req |-> NoRequest, total |-> 0, page |-> <<>>, resp |-> NoResponse]

\* the initial stores: empty, one row, one full page, more than a page
InitSizes == {0, 1, QUESTIONS_PER_PAGE, MaxInit}

Init ==
    /\ categories = CategoryRows
    /\ questions \in {SeedStore(n) : n \in InitSizes}
    /\ nextId = Len(questions) + 1
    /\ req = NoRequest
    /\ resp = NoResponse
    /\ session = <<>>
    /\ deleted = {}
    /\ nOps = 0
    /\ pc = [c \in Clients |-> "idle"]
    /\ loc = [c \in Clients |-> IdleLoc]

\* what a request of Spec leaves alone unless it says otherwise
Answer(r, response, log) ==
    /\ req' = r
    /\ resp' = response
    /\ session' = log
    /\ UNCHANGED <<categories, pc, loc>>

healthcheck(r) ==
    /\ req = NoRequest
    /\ Route(r.method, r.path) = "healthcheck"
    /\ Answer(r, [status |-> 200, json |-> FALSE, body |-> [text |-> "OK"]], <<>>)
    /\ UNCHANGED <<questions, nextId, deleted, nOps>>

\* a request the URL map matches to no endpoint, or to none for its method
RoutingError(r) ==
    /\ req = NoRequest
    /\ Route(r.method, r.path) \in {"404", "405"}
    /\ Answer(r, IF Route(r.method, r.path) = "404" THEN Abort(404) ELSE Abort(405), <<>>)
    /\ UNCHANGED <<questions, nextId, deleted, nOps>>

get_categories(r) ==
    /\ req = NoRequest
    /\ Route(r.method, r.path) = "get_categories"
    /\ IF r.fault
       THEN Answer(r, Abort(500), SessionClose(<<"query">>))
       ELSE Answer(r, Jsonify([success |-> TRUE, categories |-> CategoryDict(categories)], 200),
                   SessionClose(<<"query">>))
    /\ UNCHANGED <<questions, nextId, deleted, nOps>>

get_paginated_questions(r) ==
    /\ req = NoRequest
    /\ Route(r.method, r.path) = "get_paginated_questions"
    /\ LET offset == Offset(r.page)
           total == CountQuestions(questions)
           cur == r.current_category
       IN IF r.fault
          THEN Answer(r, Abort(GetAttrCode(InternalError)), SessionClose(<<"query">>))
          ELSE IF OutOfRange(offset, total)
          THEN Answer(r, Abort(GetAttrCode(HTTPException(404))), SessionClose(<<"query">>))
          ELSE IF UnknownCategory(categories, cur)
          THEN Answer(r, Abort(GetAttrCode(HTTPException(404))),
                      SessionClose(<<"query", "query">>))
          ELSE Answer(r,
                      Jsonify(ListBody(PageQuery(questions, cur, r.search, offset),
                                       total, categories, cur), 200),
                      SessionClose(<<"query">>
                                   \o (IF TruthyInt(cur) THEN <<"query">> ELSE <<>>)
                                   \o <<"query", "query">>))
    /\ UNCHANGED <<questions, nextId, deleted, nOps>>

delete_question(r) ==
    /\ req = NoRequest
    /\ Route(r.method, r.path) = "delete_question"
    /\ IF r.fault
       THEN /\ Answer(r, Abort(GetAttrCode(InternalError)),
                      SessionClose(SessionRollback(<<"query">>)))
            /\ UNCHANGED <<questions, nextId, deleted, nOps>>
       ELSE IF NotFound(questions, r.id)
       THEN /\ Answer(r, Abort(GetAttrCode(HTTPException(404))),
                      SessionClose(SessionRollback(<<"query">>)))
            /\ UNCHANGED <<questions, nextId, deleted, nOps>>
       ELSE /\ nOps < MaxOps
            /\ questions' = QuestionDelete(questions, r.id)
            /\ deleted' = deleted \cup {r.id}
            /\ nOps' = nOps + 1
            /\ Answer(r, Jsonify([success |-> TRUE], 200),
                      SessionClose(<<"query", "delete", "commit">>))
            /\ UNCHANGED nextId

add_question(r) ==
    /\ req = NoRequest
    /\ Route(r.method, r.path) = "add_question"
    /\ LET body == r.body
       IN IF body.kind # "object"
          THEN /\ Answer(r, Abort(GetAttrCode(InternalError)), SessionClose(<<>>))
               /\ UNCHANGED <<questions, nextId, deleted, nOps>>
          ELSE IF FalsyField(body)
          THEN /\ Answer(r, Abort(GetAttrCode(HTTPException(422))), SessionClose(<<>>))
               /\ UNCHANGED <<questions, nextId, deleted, nOps>>
          ELSE IF r.fault
          THEN /\ Answer(r, Abort(GetAttrCode(InternalError)), SessionClose(<<"query">>))
               /\ UNCHANGED <<questions, nextId, deleted, nOps>>
          ELSE IF MissingCategory(categories, body.category)
          THEN /\ Answer(r, Abort(GetAttrCode(HTTPException(422))),
                         SessionClose(<<"query">>))
               /\ UNCHANGED <<questions, nextId, deleted, nOps>>
          ELSE /\ nOps < MaxOps
               /\ questions' = QuestionInsert(questions, nextId, body.question,
                                              body.answer, body.difficulty, body.category)
               /\ nextId' = nextId + 1
               /\ nOps' = nOps + 1
               /\ Answer(r, Jsonify([success |-> TRUE], 201),
                         SessionClose(<<"query", "add", "commit">>))
               /\ UNCHANGED deleted

\* the response leaves the application; the next request can be taken
after_request ==
    /\ req # NoRequest
    /\ req' = NoRequest
    /\ resp' = NoResponse
    /\ session' = <<>>
    /\ UNCHANGED <<categories, questions, nextId, deleted, nOps, pc, loc>>

Next ==
    \/ \E r \in Requests :
        \/ healthcheck(r)
        \/ get_categories(r)
        \/ get_paginated_questions(r)
        \/ delete_question(r)
        \/ add_question(r)
        \/ RoutingError(r)
    \/ after_request

Spec == Init /\ [][Next]_vars

------------------------------------------------------------------------------
(* ConcSpec: handlers interleaved statement by statement *)

ConcRequests ==
    {Req("GET", "/questions", 0, p, None, <<>>, NoBody, FALSE) : p \in 1..2}
        \cup {Req("GET", "/questions", 0, 1, 1, <<>>, NoBody, FALSE)}
        \cup {Req("DELETE", "/questions/<int>", i, 1, None, <<>>, NoBody, FALSE) :
                 i \in {1, MaxInit - 1, MaxInit}}
        \cup {Req("POST", "/questions", 0, 1, None, <<>>,
                  ObjectBody(<<"a", "b">>, <<"x">>, 1, 1), FALSE)}

\* a client's handler ends with this response
Done(c, response) ==
    /\ pc' = [pc EXCEPT ![c] = "done"]
    /\ loc' = [loc EXCEPT ![c].resp = response]

Goto(c, label) ==
    /\ pc' = [pc EXCEPT ![c] = label]
    /\ UNCHANGED loc

StoreUnchanged == UNCHANGED <<categories, questions, nextId, deleted, nOps, req, resp, session>>

\* a request arrives and is dispatched to its handler
Dispatch(c, r) ==
    /\ pc[c] = "idle"
    /\ loc' = [loc EXCEPT ![c] = [IdleLoc EXCEPT !.req = r]]
    /\ pc' = [pc EXCEPT ![c] = Route(r.method, r.path)]
    /\ StoreUnchanged

\* get_paginated_questions: the count query and the range test
ListCount(c) ==
    /\ pc[c] = "get_paginated_questions"
    /\ LET total == CountQuestions(questions)
       IN IF OutOfRange(Offset(loc[c].req.page), total)
          THEN Done(c, Abort(GetAttrCode(HTTPException(404))))
          ELSE /\ loc' = [loc EXCEPT ![c].total = total]
               /\ pc' = [pc EXCEPT ![c] = "list_category"]
    /\ StoreUnchanged

\* get_paginated_questions: the category lookup
ListCategory(c) ==
    /\ pc[c] = "list_category"
    /\ IF UnknownCategory(categories, loc[c].req.current_category)
       THEN Done(c, Abort(GetAttrCode(HTTPException(404))))
       ELSE Goto(c, "list_page")
    /\ StoreUnchanged

\* get_paginated_questions: the page query
ListPage(c) ==
    /\ pc[c] = "list_page"
    /\ loc' = [loc EXCEPT ![c].page =
                  PageQuery(questions, loc[c].req.current_category, loc[c].req.search,
                            Offset(loc[c].req.page))]
    /\ pc' = [pc EXCEPT ![c] = "list_respond"]
    /\ StoreUnchanged

\* get_paginated_questions: the categories query and the response
ListRespond(c) ==
    /\ pc[c] = "list_respond"
    /\ Done(c, Jsonify(ListBody(loc[c].page, loc[c].total, categories,
                                loc[c].req.current_category), 200))
    /\ StoreUnchanged

\* delete_question: the lookup
DeleteGet(c) ==
    /\ pc[c] = "delete_question"
    /\ IF NotFound(questions, loc[c].req.id)
       THEN Done(c, Abort(GetAttrCode(HTTPException(404))))
       ELSE Goto(c, "delete_commit")
    /\ StoreUnchanged

\* delete_question: question.delete()
DeleteCommit(c) ==
    /\ pc[c] = "delete_commit"
    /\ nOps < MaxConcOps
    /\ questions' = QuestionDelete(questions, loc[c].req.id)
    /\ deleted' = deleted \cup {loc[c].req.id}
    /\ nOps' = nOps + 1
    /\ Done(c, Jsonify([success |-> TRUE], 200))
    /\ UNCHANGED <<categories, nextId, req, resp, session>>

\* add_question: the field test and the category lookup
AddCheck(c) ==
    /\ pc[c] = "add_question"
    /\ IF loc[c].req.body.kind # "object"
       THEN Done(c, Abort(GetAttrCode(InternalError)))
       ELSE IF FalsyField(loc[c].req.body)
               \/ MissingCategory(categories, loc[c].req.body.category)
       THEN Done(c, Abort(GetAttrCode(HTTPException(422))))
       ELSE Goto(c, "add_commit")
    /\ StoreUnchanged

\* add_question: db.session.add(new_question); db.session.commit()
AddCommit(c) ==
    /\ pc[c] = "add_commit"
    /\ nOps < MaxConcOps
    /\ LET body == loc[c].req.body
       IN questions' = QuestionInsert(questions, nextId, body.question, body.answer,
                                      body.difficulty, body.category)
    /\ nextId' = nextId + 1
    /\ nOps' = nOps + 1
    /\ Done(c, Jsonify([success |-> TRUE], 201))
    /\ UNCHANGED <<categories, deleted, req, resp, session>>

\* the response leaves the application; the client may send its next request
Finish(c) ==
    /\ pc[c] = "done"
    /\ pc' = [pc EXCEPT ![c] = "idle"]
    /\ loc' = [loc EXCEPT ![c] = IdleLoc]
    /\ StoreUnchanged

ConcNext ==
    \E c \in Clients :
        \/ \E r \in ConcRequests : Dispatch(c, r)
        \/ ListCount(c)
        \/ ListCategory(c)
        \/ ListPage(c)
        \/ ListRespond(c)
        \/ DeleteGet(c)
        \/ DeleteCommit(c)
        \/ AddCheck(c)
        \/ AddCommit(c)
        \/ Finish(c)

ConcSpec == Init /\ [][ConcNext]_vars

------------------------------------------------------------------------------
(* Properties *)

IsList(r) == r.method = "GET" /\ r.path = "/questions" /\ ~r.fault

IsDelete(r) == r.method = "DELETE" /\ r.path = "/questions/<int>" /\ ~r.fault

IsAdd(r) == r.method = "POST" /\ r.path = "/questions" /\ ~r.fault

IsEnvelope(response, code) ==
    /\ response.json
    /\ DOMAIN response.body = {"success", "error", "message"}
    /\ response.body.success = FALSE
    /\ response.body.error = code
    /\ response.status = code

\* s occurs in text as a substring, letter case ignored
ContainsCI(text, s) ==
    \E i \in 0..(Len(text) - Len(s)) :
        \A j \in 1..Len(s) : Lower(text[i + j]) = Lower(s[j])

\* rows[from + 1 .. from + 10], as far as rows reaches
Slice10(rows, from) ==
    [i \in 1..(IF Len(rows) - from < 0 THEN 0 ELSE Min(10, Len(rows) - from)) |-> rows[from + i]]

\* C1: an unfiltered GET /questions?page=N (N >= 1) answers 404 when
\* (N-1)*10 >= the number of stored questions, and otherwise 200 with exactly
\* min(10, total - (N-1)*10) questions, the stored ones at positions
\* (N-1)*10 .. (N-1)*10+9 of the listing, and total_questions = total.
C1_Pagination ==
    (IsList(req) /\ req.current_category = None /\ req.search = <<>> /\ req.page >= 1) =>
        LET from == (req.page - 1) * 10
            total == Len(questions)
        IN IF from >= total
           THEN IsEnvelope(resp, 404)
           ELSE /\ resp.status = 200
                /\ resp.body.success = TRUE
                /\ Len(resp.body.questions) = Min(10, total - from)
                /\ resp.body.questions = Slice10(questions, from)
                /\ resp.body.total_questions = total

\* C1 witness: page 2 of a store of more than ten questions is answered with
\* the questions after the tenth
C1_Witness ==
    /\ IsList(req) /\ req.current_category = None /\ req.search = <<>>
    /\ req.page = 2
    /\ resp.status = 200
    /\ Len(resp.body.questions) >= 1
    /\ resp.body.questions[1] = questions[11]

\* C2: for every integer X given as current_category on GET /questions: X not
\* the id of an existing category answers 404 with the error envelope; X the id
\* of an existing category, the page in range, answers 200, every returned
\* question has category X and current_category in the response is X.
C2_CategoryArgument ==
    (IsList(req) /\ req.current_category # None) =>
        LET X == req.current_category
        IN IF X \notin CategoryIds(categories)
           THEN IsEnvelope(resp, 404)
           ELSE (req.page - 1) * 10 < Len(questions) =>
                    /\ resp.status = 200
                    /\ \A i \in 1..Len(resp.body.questions) :
                          resp.body.questions[i].category = X
                    /\ resp.body.current_category = X

\* C3: DELETE /questions/q answers 404 with success false and leaves the stored
\* questions unchanged when no question has id q; otherwise it answers 200 with
\* success true, removes exactly that question, leaves every other question and
\* every category unchanged, and no later lookup or listing returns id q.
C3_Delete ==
    [][/\ (req = NoRequest /\ IsDelete(req')) =>
            IF req'.id \notin Ids(questions)
            THEN /\ resp'.status = 404
                 /\ resp'.body.success = FALSE
                 /\ questions' = questions
            ELSE /\ resp'.status = 200
                 /\ resp'.body.success = TRUE
                 /\ questions' = SelectSeq(questions, LAMBDA q : q.id # req'.id)
                 /\ Len(questions') = Len(questions) - 1
                 /\ categories' = categories
                 /\ req'.id \in deleted'
       /\ \A q \in deleted' :
            /\ q \notin Ids(questions')
            /\ (IsList(req') /\ resp'.status = 200) =>
                   \A i \in 1..Len(resp'.body.questions) : resp'.body.questions[i].id # q
      ]_vars

\* C3 witness: a stored question was deleted with 200, a question was added
\* afterwards, and the store still holds other questions
C3_Witness ==
    /\ IsDelete(req)
    /\ resp.status = 200
    /\ req.id \in deleted
    /\ Cardinality(deleted) = 2
    /\ Len(questions) >= 5

\* C4: POST /questions answers 422 and leaves the store unchanged if any of
\* question, answer, difficulty, category is missing or falsy or category is not
\* the id of an existing category; in every other case it answers 201 with
\* success true and the store gains exactly one question with a fresh id and the
\* four submitted values, the stored questions being otherwise unchanged.
C4_AddQuestion ==
    [][(req = NoRequest /\ IsAdd(req')) =>
         LET b == req'.body
         IN IF \/ b.question \in {NoneStr, <<>>}
               \/ b.answer \in {NoneStr, <<>>}
               \/ b.difficulty \in {None, 0}
               \/ b.category \in {None, 0}
               \/ b.category \notin CategoryIds(categories)
            THEN /\ resp'.status = 422
                 /\ questions' = questions
            ELSE /\ resp'.status = 201
                 /\ resp'.body.success = TRUE
                 /\ Len(questions') = Len(questions) + 1
                 /\ SubSeq(questions', 1, Len(questions)) = questions
                 /\ LET new == questions'[Len(questions')]
                    IN /\ new.id \notin Ids(questions)
                       /\ new.question = b.question
                       /\ new.answer = b.answer
                       /\ new.difficulty = b.difficulty
                       /\ new.category = b.category
      ]_vars

\* C5: every failing response is the envelope {success: false, error: c,
\* message: m} sent with HTTP status c, c in {400, 404, 405, 408, 422, 500}; an
\* exception without a code attribute (any internal failure) is answered with
\* HTTP status 500 and error 500.
C5_ErrorEnvelope ==
    /\ (resp.json /\ resp.body.success = FALSE) =>
          /\ resp.body.error \in ErrorCodes
          /\ IsEnvelope(resp, resp.body.error)
    /\ (req.fault /\ Route(req.method, req.path)
                        \in {"get_categories", "get_paginated_questions", "delete_question"}) =>
          IsEnvelope(resp, 500)

\* C6: in each of the four data handlers the session is closed on every exit
\* path, as the last thing done with it, before the request completes; a failed
\* DELETE rolls the transaction back before the session is closed.
C6_SessionClosed ==
    (req # NoRequest /\ Route(req.method, req.path)
         \in {"get_categories", "get_paginated_questions", "delete_question", "add_question"}) =>
        /\ session # <<>>
        /\ session[Len(session)] = "close"
        /\ \A i \in 1..(Len(session) - 1) : session[i] # "close"
        /\ (Route(req.method, req.path) = "delete_question" /\ resp.body.success = FALSE) =>
              \E i \in 1..(Len(session) - 1) : session[i] = "rollback"

\* C6 witness: a DELETE of a missing question has answered 404 after rolling
\* back and closing its session
C6_Witness ==
    /\ IsDelete(req)
    /\ resp.status = 404
    /\ session = <<"query", "rollback", "close">>

\* C7: for every in-range page N, optional existing category X and optional
\* search term s, GET /questions answers 200 with exactly the slice
\* [(N-1)*10, (N-1)*10+10) of the stored questions that have category X and
\* whose text contains s as a case-insensitive substring.
C7_CombinedFilters ==
    (/\ IsList(req)
     /\ (req.page - 1) * 10 < Len(questions)
     /\ (req.current_category = None \/ req.current_category \in CategoryIds(categories))) =>
        LET X == req.current_category
            matching == SelectSeq(questions,
                            LAMBDA q : /\ (X # None => q.category = X)
                                       /\ ContainsCI(q.question, req.search))
        IN /\ resp.status = 200
           /\ resp.body.questions = Slice10(matching, (req.page - 1) * 10)

\* C8: POST /questions/search with body {search: term} answers 200 with success
\* true, no error key and exactly the stored questions whose text contains term,
\* letter case ignored.
C8_SearchEndpoint ==
    (req.method = "POST" /\ req.path = "/questions/search") =>
        /\ resp.status = 200
        /\ resp.body.success = TRUE
        /\ "error" \notin DOMAIN resp.body
        /\ resp.body.questions =
              SelectSeq(questions, LAMBDA q : ContainsCI(q.question, req.body.search))

\* C9: from a store whose questions all reference existing categories, after any
\* sequence of requests the categories are the initial ones and every stored
\* question's category is the id of an existing category; the three GET
\* endpoints never change the stored questions.
C9_CategoriesAndReferences ==
    [][/\ categories' = categories
       /\ categories' = CategoryRows
       /\ \A i \in 1..Len(questions') : questions'[i].category \in CategoryIds(categories')
       /\ (req = NoRequest /\ req'.method = "GET") => questions' = questions
      ]_vars

\* C9 witness: a question was added by POST /questions and one was deleted
C9_Witness ==
    /\ nextId > MaxInit + 1
    /\ deleted # {}
    /\ req.method = "POST" /\ resp.status = 201
    /\ questions[Len(questions)].category = 2

\* C10: with requests interleaved statement by statement, every unfiltered
\* GET /questions?page=N answered 200 returns exactly min(10, T - (N-1)*10) > 0
\* questions, T being the total_questions of the same response.
C10_PageUnderInterleaving ==
    \A c \in Clients :
        (/\ pc[c] = "done"
         /\ IsList(loc[c].req)
         /\ loc[c].req.current_category = None
         /\ loc[c].req.search = <<>>
         /\ loc[c].resp.status = 200) =>
            LET n == Len(loc[c].resp.body.questions)
                T == loc[c].resp.body.total_questions
            IN n > 0 /\ n = Min(10, T - (loc[c].req.page - 1) * 10)

====
